---- MODULE Spec2Model ----
(***************************************************************************)
(* A model of the mmu simulator (src/src/main.rs): the 4-level page walk,  *)
(* the 128x4 TLB, the 64x8 L1 data cache and the flat physical memory, as  *)
(* driven by Machine::run_one / Machine::run_many.                         *)
(*                                                                         *)
(* A 64-bit word (PhysAddr, VirtAddr, PageTableEntry bits, tags) is the   *)
(* set of the positions of its 1-bits, so that the shifts and masks of    *)
(* the source keep their full width although TLC's integers are 32-bit.   *)
(***************************************************************************)
EXTENDS Integers, Sequences, FiniteSets, TLC

----------------------------------------------------------------------------
(* 64-bit words *)

WordBits == 0 .. 63
Zero == {}

\* The value of a word whose 1-bits are all below bit 31.
Val(x) ==
    LET sum[i \in 0 .. 31] ==
            IF i = 31 THEN 0 ELSE (IF i \in x THEN 2 ^ i ELSE 0) + sum[i + 1]
    IN  sum[0]

\* The word of a number below 2^31.
U(n) == {i \in 0 .. 30 : (n \div (2 ^ i)) % 2 = 1}

Shr(x, n) == {i - n : i \in {j \in x : j >= n}}
Shl(x, n) == {i + n : i \in {j \in x : j + n <= 63}}
BitAnd(x, y) == x \cap y
BitOr(x, y) == x \cup y
BitNot(x) == WordBits \ x
\* The word as usize, when it is used as an index (small by construction).
AsIndex(x) == Val(x)

----------------------------------------------------------------------------
(* PhysAddr, VirtAddr (main.rs:6-66) *)

PageMask == U(4095)
VpnMask == U(511)

from_frame_offset(frame, offset) == BitOr(Shl(frame, 12), offset)

\* A faulty with_offset, which keeps the frame and drops the offset.
with_offset_dropped(self, offset) == BitAnd(self, BitNot(PageMask))

with_offset(self, offset) ==
    BitOr(BitAnd(self, BitNot(PageMask)), BitAnd(offset, PageMask))

frame_offset(self) == AsIndex(BitAnd(self, PageMask))
frame_number(self) == Shr(self, 12)

page_offset(self) == BitAnd(self, PageMask)
virtual_page_number(self) == Shr(self, 12)
vpn1(self) == AsIndex(BitAnd(Shr(self, 39), VpnMask))
vpn2(self) == AsIndex(BitAnd(Shr(self, 30), VpnMask))
vpn3(self) == AsIndex(BitAnd(Shr(self, 21), VpnMask))
vpn4(self) == AsIndex(BitAnd(Shr(self, 12), VpnMask))

\* VirtAddr + u64 for a small right-hand side that does not carry out of the
\* low 31 bits (the driver's base + k * 64 reads).
VirtAdd(self, rhs) ==
    LET lo == {i \in self : i <= 30}
    IN  BitOr(self \ lo, U(Val(lo) + rhs))

----------------------------------------------------------------------------
(* PageTableEntry (main.rs:68-91) *)

\* 0x000FFFFFFFFFFFF000
PteAddrMask == 12 .. 51

new_present(target) == BitOr(BitAnd(target, PteAddrMask), {0})
new_unmapped == {}
\* A faulty is_present, which takes every entry for present.
is_present_always(self) == TRUE

is_present(self) == BitAnd(self, {0}) # {}
phys_addr(self) == BitAnd(self, PteAddrMask)

\* size_of::<PageTableEntry>(), entries of a PageTable, size_of::<PageTable>()
PteSize == 8
PageTableLen == 512
PageTableSize == PageTableLen * PteSize

----------------------------------------------------------------------------
(* Memory (main.rs:184-218) *)

MemMegabytes == 200
MemLen == MemMegabytes * (2 ^ 20)

\* The builds of the program: `a + len` panics on overflow in a debug build
\* and wraps around the 64-bit word in a release build.
Builds == {"debug", "release"}

\* A faulty access, which relies on the check alone: the bytes are reached
\* by pointer arithmetic, not through the bounds-checked `self.memory[a]`.
mem_access_unindexed(addr, len, build) ==
    IF \E i \in addr : i > 30
    THEN IF (12 .. 63) \subseteq addr /\ Val({i \in addr : i < 12}) + len >= 4096
         THEN IF build = "debug" THEN [kind |-> "panic", at |-> "overflow"]
              ELSE IF Val({i \in addr : i < 12}) + len - 4096 > MemLen
                   THEN [kind |-> "panic", at |-> "check"]
                   ELSE [kind |-> "ok", at |-> "none"]
         ELSE [kind |-> "panic", at |-> "check"]
    ELSE IF Val(addr) + len > MemLen THEN [kind |-> "panic", at |-> "check"]
         ELSE [kind |-> "ok", at |-> "none"]

\* Memory::read / Memory::mutate of len bytes at addr, in the build that
\* runs it: the check `a + len > self.memory.len()`, then the indexing
\* `self.memory[a]`, which panics for a >= len, then the access to the len
\* bytes from a.  a + len overflows exactly when bits 12..63 of a are all
\* set and the low 12 bits plus len reach 4096: a debug build panics on the
\* addition, a release build compares the wrapped sum.  An address with a
\* bit above 30 is past the length, which is below 2^31.
mem_access(addr, len, build) ==
    IF \E i \in addr : i > 30
    THEN IF (12 .. 63) \subseteq addr /\ Val({i \in addr : i < 12}) + len >= 4096
         THEN IF build = "debug" THEN [kind |-> "panic", at |-> "overflow"]
              ELSE IF Val({i \in addr : i < 12}) + len - 4096 > MemLen
                   THEN [kind |-> "panic", at |-> "check"]
                   ELSE [kind |-> "panic", at |-> "index"]
         ELSE [kind |-> "panic", at |-> "check"]
    ELSE IF Val(addr) + len > MemLen THEN [kind |-> "panic", at |-> "check"]
         ELSE IF Val(addr) >= MemLen THEN [kind |-> "panic", at |-> "index"]
         ELSE [kind |-> "ok", at |-> "none"]

\* The access panics (in the builds that can run it: they agree).
OutOfBounds(addr, len) ==
    \E a \in {addr} : \E build \in Builds : mem_access(a, len, build).kind = "panic"

\* The 8-byte word at byte address a (a multiple of 8); memory never written
\* is zero (vec![0; mb << 20]).
MemWord(m, a) == IF a \in DOMAIN m THEN m[a] ELSE Zero

\* page_table[i] of the PageTable read at addr.
TableEntry(m, addr, i) == MemWord(m, Val(addr) + PteSize * i)

\* A faulty store, which also clears the entry after the one it writes.
TableStoreWide(m, addr, i, e) ==
    IF Val(addr) + PteSize * (i + 1) \in DOMAIN m
    THEN [m EXCEPT ![Val(addr) + PteSize * i] = e,
                   ![Val(addr) + PteSize * (i + 1)] = Zero]
    ELSE [m EXCEPT ![Val(addr) + PteSize * i] = e]

\* table[i] = e through Memory::mutate::<PageTable>(addr).
TableStore(m, addr, i, e) == [m EXCEPT ![Val(addr) + PteSize * i] = e]

LineSize == 64
WordsPerLine == LineSize \div PteSize

\* Memory::read::<[u8; 64]>(block_addr), kept as its 8 little-endian words.
ReadLine(m, block_addr) ==
    [w \in 0 .. WordsPerLine - 1 |-> MemWord(m, Val(block_addr) + PteSize * w)]

\* A faulty byte selection, which takes the first byte of the word.
LineByteFirst(line, offset) ==
    Val(BitAnd(line[offset \div PteSize], 0 .. 7))

\* line[offset]: byte offset % 8 of word offset / 8.
LineByte(line, offset) ==
    Val(BitAnd(Shr(line[offset \div PteSize], 8 * (offset % PteSize)), 0 .. 7))

----------------------------------------------------------------------------
(* L1dCacheEntry, L1dCacheSet, L1dCache (main.rs:109-182) *)

L1Ways == 8
L1Sets == 64

L1dCacheEntryEmpty ==
    [valid |-> FALSE, tag |-> Zero, line |-> [w \in 0 .. WordsPerLine - 1 |-> Zero]]
L1dCacheSetEmpty == [i \in 0 .. L1Ways - 1 |-> L1dCacheEntryEmpty]

\* The cache is kept as the function from the indices of the sets written
\* since L1dCache::empty() to those sets; every other set of the 64 is
\* L1dCacheSet::empty().
L1dCacheEmpty == << >>
CacheSetOf(c, index) == IF index \in DOMAIN c THEN c[index] ELSE L1dCacheSetEmpty
CachePut(c, index, cache_set) ==
    [s \in DOMAIN c \cup {index} |-> IF s = index THEN cache_set ELSE c[s]]

----------------------------------------------------------------------------
(* TlbEntry, Tlb (main.rs:220-264) *)

TlbWays == 4
TlbSets == 128
AccessMax == 255

\* A faulty increment, which wraps as a plain u8 addition would in release.
wrapping_add1(x) == (x + 1) % (AccessMax + 1)

\* u8::saturating_add(1)
saturating_add1(x) == IF x = AccessMax THEN AccessMax ELSE x + 1

mark_accessed(self) == [self EXCEPT !.access = saturating_add1(self.access)]

TlbEntryInvalid == [valid |-> FALSE, access |-> 0, tag |-> Zero, addr |-> Zero]
TlbEntrySetInvalid == [i \in 0 .. TlbWays - 1 |-> TlbEntryInvalid]

\* The TLB is kept as the function from the indices of the sets written
\* since Tlb::empty() to those sets; every other set of the 128 is
\* [TlbEntry::invalid(); 4].
TlbEmpty == << >>
TlbSetOf(t, index) == IF index \in DOMAIN t THEN t[index] ELSE TlbEntrySetInvalid
TlbPut(t, index, tlb_set) ==
    [s \in DOMAIN t \cup {index} |-> IF s = index THEN tlb_set ELSE t[s]]

----------------------------------------------------------------------------
(* CacheStats, Stats, Log (main.rs:303-359) *)

CacheStatsNew == [hit |-> 0, miss |-> 0]
StatsNew == [page_faults |-> 0, l1 |-> CacheStatsNew, tlb |-> CacheStatsNew]
CacheStatsHit(self) == [self EXCEPT !.hit = @ + 1]
\* A faulty miss, which counts twice.
CacheStatsMissTwice(self) == [self EXCEPT !.miss = @ + 2]

CacheStatsMiss(self) == [self EXCEPT !.miss = @ + 1]

LogNew == [enable |-> TRUE, depth |-> 0]
begin_context(self) == [self EXCEPT !.depth = @ + 1]
end_context(self) == [self EXCEPT !.depth = @ - 1]

----------------------------------------------------------------------------
(* Machine::translate (main.rs:374-459) *)

TlbIndexMask == U(127)
TlbIndexBits == 7

tlb_index(virt_addr) ==
    AsIndex(BitAnd(virtual_page_number(virt_addr), TlbIndexMask))

\* A faulty tag, of two bits above the seven of the index.
tlb_tag_narrow(virt_addr) ==
    Shl(BitAnd(Shr(virtual_page_number(virt_addr), TlbIndexBits), U(3)),
        TlbIndexBits)

tlb_tag(virt_addr) ==
    Shl(Shr(virtual_page_number(virt_addr), TlbIndexBits), TlbIndexBits)

\* for i in 0..4 { if tlb_set[i].tag == tlb_tag && tlb_set[i].valid {..return} }
\* the first matching way, TlbWays when the loop runs to its end.
TlbLookup(tlb_set, tag) ==
    LET from[i \in 0 .. TlbWays] ==
            IF i = TlbWays THEN TlbWays
            ELSE IF tlb_set[i].tag = tag /\ tlb_set[i].valid THEN i
            ELSE from[i + 1]
    IN  from[0]

\* One level of the walk: read the PageTable at `table` (a panic when it
\* does not lie in memory) and index it.
WalkLevel(m, table, index) ==
    IF OutOfBounds(table, PageTableSize)
    THEN [kind |-> "panic", pte |-> Zero]
    ELSE [kind |-> IF is_present(TableEntry(m, table, index)) THEN "ok" ELSE "fault",
          pte |-> TableEntry(m, table, index)]

\* The four levels of the walk from `root`: the first level that panics or
\* faults ends it, the level-4 entry is its result.
Walk(m, root, virt_addr) ==
    LET l1 == WalkLevel(m, root, vpn1(virt_addr))
        l2 == WalkLevel(m, phys_addr(l1.pte), vpn2(virt_addr))
        l3 == WalkLevel(m, phys_addr(l2.pte), vpn3(virt_addr))
        l4 == WalkLevel(m, phys_addr(l3.pte), vpn4(virt_addr))
    IN  IF l1.kind # "ok" THEN [l1 EXCEPT !.pte = Zero] @@ [level |-> 1]
        ELSE IF l2.kind # "ok" THEN [l2 EXCEPT !.pte = Zero] @@ [level |-> 2]
        ELSE IF l3.kind # "ok" THEN [l3 EXCEPT !.pte = Zero] @@ [level |-> 3]
        ELSE IF l4.kind # "ok" THEN [l4 EXCEPT !.pte = Zero] @@ [level |-> 4]
        ELSE l4 @@ [level |-> 4]

\* A faulty victim loop, which lets a later way of equal count win.
TlbVictimLast(tlb_set) ==
    LET loop[i \in 0 .. TlbWays, k \in 0 .. TlbWays - 1] ==
            IF i = TlbWays THEN k
            ELSE IF ~tlb_set[i].valid THEN i
            ELSE loop[i + 1,
                      IF tlb_set[i].access <= tlb_set[k].access THEN i ELSE k]
    IN  loop[0, 0]

\* let mut k = 0; for i in 0..4 { if !valid {k = i; break;}
\*                                if access[i] < access[k] {k = i;} }
\* run from way i on with k as it stands.
TlbVictim(tlb_set) ==
    LET loop[i \in 0 .. TlbWays, k \in 0 .. TlbWays - 1] ==
            IF i = TlbWays THEN k
            ELSE IF ~tlb_set[i].valid THEN i
            ELSE loop[i + 1,
                      IF tlb_set[i].access < tlb_set[k].access THEN i ELSE k]
    IN  loop[0, 0]

\* A faulty reset, which leaves the counts as they are.
TlbResetKept(tlb_set) == tlb_set

\* for i in 0..4 { tlb_set[i].access = 0; }
TlbResetAccess(tlb_set) ==
    [i \in 0 .. TlbWays - 1 |-> [tlb_set[i] EXCEPT !.access = 0]]

\* A faulty replacement, which leaves the victim's old tag in place.
TlbReplaceKeepTag(tlb_set, k, tag, addr) ==
    [tlb_set EXCEPT ![k] = mark_accessed([@ EXCEPT !.valid = TRUE,
                                                   !.addr = addr])]

\* tlb_set[k].valid = true; .addr = phys_addr; .tag = tlb_tag; .mark_accessed()
TlbReplace(tlb_set, k, tag, addr) ==
    [tlb_set EXCEPT ![k] = mark_accessed([@ EXCEPT !.valid = TRUE,
                                                   !.addr = addr,
                                                   !.tag = tag])]

TlbInsert(tlb_set, tag, addr) ==
    TlbReplace(TlbResetAccess(tlb_set), TlbVictim(tlb_set), tag, addr)

\* A faulty translate, which resets the counts of the set before the walk
\* has found the page: a walk that fails leaves the set reset.
translate_eager(t, m, st, root, virt_addr) ==
    LET idx == tlb_index(virt_addr)
        tag == tlb_tag(virt_addr)
        tlb_set == TlbSetOf(t, idx)
        offset == page_offset(virt_addr)
        i == TlbLookup(tlb_set, tag)
    IN  IF i < TlbWays
        THEN [kind |-> "ok",
              addr |-> with_offset(tlb_set[i].addr, offset),
              tlb |-> TlbPut(t, idx, [tlb_set EXCEPT ![i] = mark_accessed(@)]),
              stats |-> [st EXCEPT !.tlb = CacheStatsHit(@)],
              tlbev |-> "hit", level |-> 0]
        ELSE LET st1 == [st EXCEPT !.tlb = CacheStatsMiss(@),
                                   !.page_faults = @ + 1]
                 w == Walk(m, root, virt_addr)
             IN  IF w.kind # "ok"
                 THEN [kind |-> w.kind, addr |-> Zero,
                       tlb |-> TlbPut(t, idx, TlbResetAccess(tlb_set)),
                       stats |-> st1, tlbev |-> "miss", level |-> w.level]
                 ELSE [kind |-> "ok",
                       addr |-> with_offset(phys_addr(w.pte), offset),
                       tlb |-> TlbPut(t, idx,
                                   TlbInsert(tlb_set, tag, phys_addr(w.pte))),
                       stats |-> [st1 EXCEPT !.page_faults = @ - 1],
                       tlbev |-> "miss", level |-> w.level]

\* The outcome of translate on TLB t, memory m, statistics st and root table
\* `root`: kind is "ok" (addr is the result), "fault" (Err(PageFault)) or
\* "panic" (Memory::read panicked); tlb and stats are the fields as the call
\* leaves them, tlbev the trace line ("TLB Hit" / "TLB Miss"), level the
\* walk level that ended the call (0 on a hit).
translate(t, m, st, root, virt_addr) ==
    LET idx == tlb_index(virt_addr)
        tag == tlb_tag(virt_addr)
        tlb_set == TlbSetOf(t, idx)
        offset == page_offset(virt_addr)
        i == TlbLookup(tlb_set, tag)
    IN  IF i < TlbWays
        THEN [kind |-> "ok",
              addr |-> with_offset(tlb_set[i].addr, offset),
              tlb |-> TlbPut(t, idx, [tlb_set EXCEPT ![i] = mark_accessed(@)]),
              stats |-> [st EXCEPT !.tlb = CacheStatsHit(@)],
              tlbev |-> "hit", level |-> 0]
        ELSE LET st1 == [st EXCEPT !.tlb = CacheStatsMiss(@),
                                   !.page_faults = @ + 1]
                 w == Walk(m, root, virt_addr)
             IN  IF w.kind # "ok"
                 THEN [kind |-> w.kind, addr |-> Zero, tlb |-> t,
                       stats |-> st1, tlbev |-> "miss", level |-> w.level]
                 ELSE [kind |-> "ok",
                       addr |-> with_offset(phys_addr(w.pte), offset),
                       tlb |-> TlbPut(t, idx,
                                   TlbInsert(tlb_set, tag, phys_addr(w.pte))),
                       stats |-> [st1 EXCEPT !.page_faults = @ - 1],
                       tlbev |-> "miss", level |-> w.level]

----------------------------------------------------------------------------
(* Machine::read_phys (main.rs:461-505) *)

LineMask == U(63)
LineBits == 6
L1IndexMask == U(63)

\* frame_offset() is a usize: its word, to shift and mask
frame_offset_word(addr) == BitAnd(addr, PageMask)

l1_offset(addr) == AsIndex(BitAnd(frame_offset_word(addr), LineMask))
\* A faulty index, which forgets to shift the line offset away.
l1_index_unshifted(addr) == AsIndex(BitAnd(frame_offset_word(addr), L1IndexMask))

\* A faulty index, of five bits instead of six.
l1_index_narrow(addr) ==
    AsIndex(BitAnd(Shr(frame_offset_word(addr), LineBits), U(31)))

l1_index(addr) == AsIndex(BitAnd(Shr(frame_offset_word(addr), LineBits), L1IndexMask))
l1_tag(addr) == frame_number(addr)
\* A faulty block address, which is not aligned to the line.
block_addr_unaligned(addr) == addr

block_addr(addr) == BitAnd(addr, BitNot(LineMask))

\* A faulty lookup, which finds no way whatever the set holds.
L1LookupBlind(cache_set, tag) == L1Ways

\* for i in 0..8 { if cache_set[i].valid && cache_set[i].tag == tag {return} }
\* the first matching way, L1Ways when the loop runs to its end.
L1Lookup(cache_set, tag) ==
    LET from[i \in 0 .. L1Ways] ==
            IF i = L1Ways THEN L1Ways
            ELSE IF cache_set[i].valid /\ cache_set[i].tag = tag THEN i
            ELSE from[i + 1]
    IN  from[0]

\* A faulty victim loop, which stops at the first invalid way.
L1VictimFirst(cache_set) ==
    LET loop[i \in 0 .. L1Ways] ==
            IF i = L1Ways THEN 0
            ELSE IF ~cache_set[i].valid THEN i
            ELSE loop[i + 1]
    IN  loop[0]

\* let mut k = 0; for i in 0..8 { if !cache_set[i].valid { k = i; } }
L1Victim(cache_set) ==
    LET loop[i \in 0 .. L1Ways, k \in 0 .. L1Ways - 1] ==
            IF i = L1Ways THEN k
            ELSE loop[i + 1, IF ~cache_set[i].valid THEN i ELSE k]
    IN  loop[0, 0]

\* The outcome of read_phys on cache c, memory m and statistics st: kind is
\* "ok" (byte is the result) or "panic" (the line load lay outside memory,
\* after valid and tag of the victim were already written).
read_phys(c, m, st, addr) ==
    LET offset == l1_offset(addr)
        index == l1_index(addr)
        tag == l1_tag(addr)
        cache_set == CacheSetOf(c, index)
        i == L1Lookup(cache_set, tag)
    IN  IF i < L1Ways
        THEN [kind |-> "ok", byte |-> LineByte(cache_set[i].line, offset),
              cache |-> c, stats |-> [st EXCEPT !.l1 = CacheStatsHit(@)],
              l1ev |-> "hit"]
        ELSE LET st1 == [st EXCEPT !.l1 = CacheStatsMiss(@)]
                 k == L1Victim(cache_set)
                 blk == block_addr(addr)
                 marked == [cache_set EXCEPT ![k].valid = TRUE, ![k].tag = tag]
             IN  IF OutOfBounds(blk, LineSize)
                 THEN [kind |-> "panic", byte |-> 0,
                       cache |-> CachePut(c, index, marked),
                       stats |-> st1, l1ev |-> "miss"]
                 ELSE LET line == ReadLine(m, blk)
                      IN  [kind |-> "ok", byte |-> LineByte(line, offset),
                           cache |-> CachePut(c, index,
                                        [marked EXCEPT ![k].line = line]),
                           stats |-> st1, l1ev |-> "miss"]

----------------------------------------------------------------------------
(* Machine::map_page, Machine::unmap_page, Machine::invalidate_tlb
   (main.rs:520-542) *)

\* Memory::mutate::<PageTable>(table_location) panics outside memory, and
\* table[table_entry] panics for an entry that is not below 512.
map_page(m, table_location, table_entry, target_frame) ==
    IF OutOfBounds(table_location, PageTableSize) \/ table_entry >= PageTableLen
    THEN [kind |-> "panic", memory |-> m]
    ELSE [kind |-> "ok",
          memory |-> TableStore(m, table_location, table_entry,
                                new_present(target_frame))]

\* A faulty unmap_page, which writes nothing.
unmap_page_kept(m, table_location, table_entry) ==
    [kind |-> "ok", memory |-> m]

unmap_page(m, table_location, table_entry) ==
    IF OutOfBounds(table_location, PageTableSize) \/ table_entry >= PageTableLen
    THEN [kind |-> "panic", memory |-> m]
    ELSE [kind |-> "ok",
          memory |-> TableStore(m, table_location, table_entry, new_unmapped)]

\* A faulty invalidate_tlb, which keeps the entries.
invalidate_tlb_kept(t) == t

invalidate_tlb(t) == TlbEmpty

----------------------------------------------------------------------------
(* The driver (main.rs:678-821): the pages it allocates, its page-table
   edits and the virtual addresses it reads *)

PageSize == 4096
Allocator == 99

\* The n-th page handed out by next_page(): allocator += 1; 4096 * allocator.
NextPage(n) == U(PageSize * (Allocator + n))

Cr3 == NextPage(1)
p1 == NextPage(2)
p2 == NextPage(3)
p3 == NextPage(4)
p4 == NextPage(5)
p5 == NextPage(6)
p6 == NextPage(7)
p7 == NextPage(8)
p8 == NextPage(9)
p9 == NextPage(10)

\* The VirtAddr with the given four table indices and page offset.
VirtOf(i1, i2, i3, i4, offset) ==
    BitOr(BitOr(Shl(U(i1), 39), Shl(U(i2), 30)),
          BitOr(BitOr(Shl(U(i3), 21), Shl(U(i4), 12)), U(offset)))

Map(table, index, target) ==
    [op |-> "map", table |-> table, index |-> index, target |-> target]
UnMap(table, index) ==
    [op |-> "unmap", table |-> table, index |-> index, target |-> Zero]

\* The Map actions of main's list (main.rs:706-796); the targets of the
\* last eight are the pages next_page() hands out after p9.
MainMaps ==
    << Map(Cr3, 10, p1), Map(p1, 0, p2), Map(p2, 0, p3), Map(p2, 1, p3),
       Map(p3, 0, p4), Map(p3, 1, p5), Map(p3, 2, p6),
       Map(Cr3, 32, p7), Map(p7, 0, p8), Map(p8, 0, p9) >>
    \o [k \in 1 .. 8 |-> Map(p9, 199 + k, NextPage(10 + k))]

----------------------------------------------------------------------------
(* Machine::read (main.rs:507-518) *)

\* begin_context; translate(addr)? (an Err returns at once, before
\* end_context); read_phys; end_context.
read(t, c, m, st, lg, root, addr) ==
    LET lg1 == begin_context(lg)
        tr == translate(t, m, st, root, addr)
    IN  IF tr.kind # "ok"
        THEN [kind |-> tr.kind, byte |-> 0, addr |-> Zero, tlb |-> tr.tlb,
              cache |-> c, stats |-> tr.stats, log |-> lg1,
              tlbev |-> tr.tlbev, l1ev |-> "none", level |-> tr.level]
        ELSE LET rp == read_phys(c, m, tr.stats, tr.addr)
             IN  [kind |-> rp.kind, byte |-> rp.byte, addr |-> tr.addr,
                  tlb |-> tr.tlb, cache |-> rp.cache, stats |-> rp.stats,
                  log |-> IF rp.kind = "ok" THEN end_context(lg1) ELSE lg1,
                  tlbev |-> tr.tlbev, l1ev |-> rp.l1ev, level |-> tr.level]

----------------------------------------------------------------------------
(* Machine::page_map / dump_stats (main.rs:546-597) *)

\* The present entries of the table at phys_base, as the words of memory
\* that were ever written (all others are zero, not present).
PresentEntries(m, phys_base) ==
    {m[a] : a \in {b \in DOMAIN m : /\ b >= Val(phys_base)
                                    /\ b < Val(phys_base) + PageTableSize
                                    /\ is_present(m[b])}}

\* Whether page_map_rec(depth, phys_base) panics in one of its
\* Memory::read::<PageTable> calls (its own, or num_mapped_entries'): the
\* tables read are the root and those the present entries of depths 1 to 3
\* point to.
TablesAt(m, root) ==
    LET below(tables) ==
            UNION {{phys_addr(e) : e \in PresentEntries(m, t)} :
                   t \in {u \in tables : ~OutOfBounds(u, PageTableSize)}}
        d1 == {root}
        d2 == below(d1)
        d3 == below(d2)
        d4 == below(d3)
    IN  d1 \cup d2 \cup d3 \cup d4

PageMapPanics(m, root) ==
    \E t \in TablesAt(m, root) : OutOfBounds(t, PageTableSize)

----------------------------------------------------------------------------
(* The machine *)

VARIABLES
    cr3,        \* Machine.cr3
    tlb,        \* Machine.tlb: set -> way -> TlbEntry
    memory,     \* Machine.memory: byte address of an 8-byte word -> word
    cache,      \* Machine.cache: set -> way -> L1dCacheEntry
    stats,      \* Machine.stats
    log,        \* Machine.log
    panicked,   \* the process has panicked (it runs no further action)
    ran,        \* the number of calls made so far
    call,       \* the last call: its name and arguments
    ret,        \* what the last call returned and traced
    unmapped    \* the slots <<table, index>> unmapped and not mapped since

vars == <<cr3, tlb, memory, cache, stats, log, panicked, ran, call, ret, unmapped>>

NoRet ==
    [kind |-> "none", addr |-> Zero, byte |-> 0, tlbev |-> "none",
     l1ev |-> "none", level |-> 0]

Call(op, addr, index, target) ==
    [op |-> op, addr |-> addr, index |-> index, target |-> target]

\* Every page-table slot a page-table edit of the scenarios below names.
SeqSlots(list) == {<<list[n].table, list[n].index>> : n \in 1 .. Len(list)}

----------------------------------------------------------------------------
(* The calls *)

Translate(v) ==
    /\ ~panicked
    /\ \E r \in {translate(tlb, memory, stats, cr3, v)} :
           /\ tlb' = r.tlb
           /\ stats' = r.stats
           /\ panicked' = (r.kind = "panic")
           /\ ret' = [kind |-> r.kind, addr |-> r.addr, byte |-> 0,
                      tlbev |-> r.tlbev, l1ev |-> "none", level |-> r.level]
    /\ call' = Call("translate", v, 0, Zero)
    /\ ran' = ran + 1
    /\ UNCHANGED <<cr3, memory, cache, log, unmapped>>

ReadPhys(a) ==
    /\ ~panicked
    /\ \E r \in {read_phys(cache, memory, stats, a)} :
           /\ cache' = r.cache
           /\ stats' = r.stats
           /\ panicked' = (r.kind = "panic")
           /\ ret' = [kind |-> r.kind, addr |-> a, byte |-> r.byte,
                      tlbev |-> "none", l1ev |-> r.l1ev, level |-> 0]
    /\ call' = Call("read_phys", a, 0, Zero)
    /\ ran' = ran + 1
    /\ UNCHANGED <<cr3, tlb, memory, log, unmapped>>

Read(v) ==
    /\ ~panicked
    /\ \E r \in {read(tlb, cache, memory, stats, log, cr3, v)} :
           /\ tlb' = r.tlb
           /\ cache' = r.cache
           /\ stats' = r.stats
           /\ log' = r.log
           /\ panicked' = (r.kind = "panic")
           /\ ret' = [kind |-> r.kind, addr |-> r.addr, byte |-> r.byte,
                      tlbev |-> r.tlbev, l1ev |-> r.l1ev, level |-> r.level]
    /\ call' = Call("read", v, 0, Zero)
    /\ ran' = ran + 1
    /\ UNCHANGED <<cr3, memory, unmapped>>

\* A map_page that would also invalidate the TLB.
MapPageFlushing(table, index, target) ==
    /\ ~panicked
    /\ \E r \in {map_page(memory, table, index, target)} :
           /\ memory' = r.memory
           /\ panicked' = (r.kind = "panic")
           /\ ret' = [NoRet EXCEPT !.kind = r.kind]
           /\ unmapped' = IF r.kind = "ok" THEN unmapped \ {<<table, index>>}
                          ELSE unmapped
    /\ tlb' = invalidate_tlb(tlb)
    /\ call' = Call("map_page", table, index, target)
    /\ ran' = ran + 1
    /\ UNCHANGED <<cr3, cache, stats, log>>

MapPage(table, index, target) ==
    /\ ~panicked
    /\ \E r \in {map_page(memory, table, index, target)} :
           /\ memory' = r.memory
           /\ panicked' = (r.kind = "panic")
           /\ ret' = [NoRet EXCEPT !.kind = r.kind]
           /\ unmapped' = IF r.kind = "ok" THEN unmapped \ {<<table, index>>}
                          ELSE unmapped
    /\ call' = Call("map_page", table, index, target)
    /\ ran' = ran + 1
    /\ UNCHANGED <<cr3, tlb, cache, stats, log>>

UnmapPage(table, index) ==
    /\ ~panicked
    /\ \E r \in {unmap_page(memory, table, index)} :
           /\ memory' = r.memory
           /\ panicked' = (r.kind = "panic")
           /\ ret' = [NoRet EXCEPT !.kind = r.kind]
           /\ unmapped' = IF r.kind = "ok" THEN unmapped \cup {<<table, index>>}
                          ELSE unmapped
    /\ call' = Call("unmap_page", table, index, Zero)
    /\ ran' = ran + 1
    /\ UNCHANGED <<cr3, tlb, cache, stats, log>>

InvalidateTlb ==
    /\ ~panicked
    /\ tlb' = invalidate_tlb(tlb)
    /\ call' = Call("invalidate_tlb", Zero, 0, Zero)
    /\ ret' = [NoRet EXCEPT !.kind = "ok"]
    /\ ran' = ran + 1
    /\ UNCHANGED <<cr3, memory, cache, stats, log, panicked, unmapped>>

\* dump_stats: page_map() walks the tables (and may panic there), then
\* self.stats.reset().
DumpStats ==
    /\ ~panicked
    /\ IF PageMapPanics(memory, cr3)
       THEN /\ panicked' = TRUE
            /\ ret' = [NoRet EXCEPT !.kind = "panic"]
            /\ UNCHANGED stats
       ELSE /\ stats' = StatsNew
            /\ ret' = [NoRet EXCEPT !.kind = "ok"]
            /\ UNCHANGED panicked
    /\ call' = Call("dump_stats", Zero, 0, Zero)
    /\ ran' = ran + 1
    /\ UNCHANGED <<cr3, tlb, memory, cache, log, unmapped>>

\* run_many over a list of Map actions: run_one on each in turn, stopping
\* at a panic.
RunMaps(m, list) ==
    LET after[n \in 0 .. Len(list)] ==
            IF n = 0 THEN [kind |-> "ok", memory |-> m]
            ELSE LET prev == after[n - 1]
                 IN  IF prev.kind = "panic" THEN prev
                     ELSE map_page(prev.memory, list[n].table, list[n].index,
                                   list[n].target)
    IN  after[Len(list)]

RunMany(list) ==
    /\ ~panicked
    /\ \E r \in {RunMaps(memory, list)} :
           /\ memory' = r.memory
           /\ panicked' = (r.kind = "panic")
           /\ ret' = [NoRet EXCEPT !.kind = r.kind]
    /\ unmapped' = unmapped \ SeqSlots(list)
    /\ call' = Call("run_many", Zero, Len(list), Zero)
    /\ ran' = ran + 1
    /\ UNCHANGED <<cr3, tlb, cache, stats, log>>

----------------------------------------------------------------------------
(* Scenario: page-table edits against translations.  The machine main
   builds (cr3 the first page, 200 MB), main's Map list run at the start or
   not at all, then unmaps and remaps along the walk of two homonyms. *)

MaxActions == 6

\* 0x50000000200 and its homonym through p2[1], 0x50000200204
vA == VirtOf(10, 0, 0, 0, 512)
vB == VirtOf(10, 0, 1, 0, 516)
\* the same page as vA, another line
vA2 == VirtOf(10, 0, 0, 0, 576)

\* The first page past the end of memory.
Beyond == U(MemLen)

WalkVirts == {vA, vB}
WalkReads == {vA, vA2}
WalkUnmaps == {UnMap(Cr3, 10), UnMap(p1, 0), UnMap(p2, 0), UnMap(p3, 0)}
WalkMaps == {Map(p3, 0, p5), Map(p2, 0, Beyond)}

\* Three more pages of p3, so that eight pages under p2[0] and p2[1]
\* fall in TLB set 0 with eight tags.
TlbMaps == << Map(p3, 128, p7), Map(p3, 256, p8), Map(p3, 384, p9) >>

\* Tables that do not lie inside memory: the first page past its end, a
\* page that straddles its end, and the last page of the address space.
Straddle == U(MemLen - 2048)
Top == 12 .. 63
EdgeMaps == << Map(Beyond, 0, p1), Map(Straddle, 0, p1), Map(Straddle, 511, p1),
               Map(Top, 0, p1) >>

AllSlots == SeqSlots(MainMaps \o TlbMaps \o EdgeMaps)

MemWords == {Val(s[1]) + PteSize * s[2] : s \in AllSlots}

Init ==
    /\ cr3 = Cr3
    /\ tlb = TlbEmpty
    /\ memory = [a \in MemWords |-> Zero]
    /\ cache = L1dCacheEmpty
    /\ stats = StatsNew
    /\ log = LogNew
    /\ panicked = FALSE
    /\ ran = 0
    /\ call = Call("new", Zero, 0, Zero)
    /\ ret = NoRet
    /\ unmapped = {}

Setup == ran = 0 /\ RunMany(MainMaps)

More == ran < MaxActions

Next ==
    \/ More /\ Setup
    \/ More /\ \E v \in WalkVirts : Translate(v)
    \/ More /\ \E v \in WalkReads : Read(v)
    \/ More /\ \E e \in WalkUnmaps : UnmapPage(e.table, e.index)
    \/ More /\ \E e \in WalkMaps : MapPage(e.table, e.index, e.target)
    \/ More /\ InvalidateTlb

Spec == Init /\ [][Next]_vars

----------------------------------------------------------------------------
(* The vocabulary of the properties, stated on the words themselves *)

\* VPN & 127 and VPN with its low 7 bits cleared
SetIndexOf(v) == Val({i \in Shr(v, 12) : i < 7})
TagOf(v) == {i \in Shr(v, 12) : i >= 7}

\* The frame bits and the low 12 bits of an address.
FrameOf(a) == {i \in a : i >= 12}
OffsetOf(a) == {i \in a : i < 12}
SameVpn(u, v) == FrameOf(u) = FrameOf(v)

\* The ways of v's TLB set that hold v's page.
CachedWays(t, v) ==
    {w \in 0 .. 3 : /\ TlbSetOf(t, SetIndexOf(v))[w].valid
                    /\ TlbSetOf(t, SetIndexOf(v))[w].tag = TagOf(v)}
Cached(t, v) == CachedWays(t, v) # {}

\* The 9-bit table index of v at a level: bits 39.., 30.., 21.., 12..
IndexAt(v, level) ==
    Val({i - (48 - 9 * level) : i \in v \cap ((48 - 9 * level) .. (56 - 9 * level))})

\* The entries v's walk from root meets at levels 1 to 4, each read in the
\* table the entry before it points to (zero where there is no memory).
WalkEntries(m, root, v) ==
    LET e[k \in 1 .. 4] ==
            MemWord(m, Val(IF k = 1 THEN root ELSE e[k - 1] \cap (12 .. 30))
                       + 8 * IndexAt(v, k))
        inside[k \in 1 .. 4] ==
            k = 1 \/ (inside[k - 1] /\ 0 \in e[k - 1]
                      /\ \A i \in e[k - 1] : i <= 30)
    IN  [k \in 1 .. 4 |-> IF inside[k] THEN e[k] ELSE Zero]

PathPresent(m, root, v) == \A k \in 1 .. 4 : 0 \in WalkEntries(m, root, v)[k]

\* The last action was a new call of op.
Called(op) == call'.op = op /\ ran' = ran + 1

----------------------------------------------------------------------------
(* Properties of translate and read against the page table *)

\* C1: a translate that misses the TLB while all four entries of the walk
\* from cr3 are present returns Ok(p), p's frame being the frame stored in
\* the level-4 entry and p's low 12 bits the page offset of the address (so
\* homonyms, whose walks end at entries holding one frame, resolve to it).
C1_Step ==
    (/\ Called("translate")
     /\ ~Cached(tlb, call'.addr)
     /\ PathPresent(memory, cr3, call'.addr))
    => /\ ret'.kind = "ok"
       /\ FrameOf(ret'.addr) = WalkEntries(memory, cr3, call'.addr)[4] \cap (12 .. 51)
       /\ OffsetOf(ret'.addr) = OffsetOf(call'.addr)
       /\ \A u \in WalkVirts :
            (/\ PathPresent(memory, cr3, u)
             /\ WalkEntries(memory, cr3, u)[4] = WalkEntries(memory, cr3, call'.addr)[4])
            => FrameOf(ret'.addr) = WalkEntries(memory, cr3, u)[4] \cap (12 .. 51)

C1_WalkResult == [][C1_Step]_vars

\* vB, walked through p2[1], resolved to the frame vA's walk ends at (p4).
C1_Witness ==
    /\ call.op = "translate" /\ call.addr = vB
    /\ ret.kind = "ok" /\ ret.tlbev = "miss"
    /\ FrameOf(ret.addr) = p4
    /\ OffsetOf(ret.addr) = U(516)
    /\ PathPresent(memory, cr3, vA)
    /\ WalkEntries(memory, cr3, vA)[4] = WalkEntries(memory, cr3, vB)[4]

\* C2: a translate that returns, returns PageFault exactly when the lookup
\* misses the TLB and one of the four entries of the walk is not present; a
\* TLB hit never faults; read faults exactly when translate does.
C2_Step ==
    /\ (Called("translate") /\ ret'.kind # "panic")
       => (ret'.kind = "fault"
           <=> (~Cached(tlb, call'.addr) /\ ~PathPresent(memory, cr3, call'.addr)))
    /\ (Called("read") /\ ret'.kind # "panic")
       => /\ ret'.kind = "fault"
             <=> (~Cached(tlb, call'.addr) /\ ~PathPresent(memory, cr3, call'.addr))
          /\ ret'.kind = "fault"
             <=> translate(tlb, memory, stats, cr3, call'.addr).kind = "fault"
    /\ (Called("translate") /\ ret'.kind = "fault")
       => /\ \A k \in 1 .. 4 : k < ret'.level =>
                0 \in WalkEntries(memory, cr3, call'.addr)[k]
          /\ 0 \notin WalkEntries(memory, cr3, call'.addr)[ret'.level]

C2_FaultIff == [][C2_Step]_vars

\* A read faulted at level 3 (p2[0] unmapped), levels 1 and 2 being present.
C2_Witness ==
    /\ call.op = "read" /\ ret.kind = "fault" /\ ret.level = 3
    /\ 0 \in WalkEntries(memory, cr3, call.addr)[1]
    /\ 0 \in WalkEntries(memory, cr3, call.addr)[2]
    /\ <<p2, 0>> \in unmapped

\* The level-4 slot v's walk goes through, when levels 1 to 3 are present.
ThroughSlot(m, root, v) ==
    <<WalkEntries(m, root, v)[3] \cap (12 .. 51), IndexAt(v, 4)>>
ThroughUnmapped(m, root, v) ==
    /\ \A k \in 1 .. 3 : 0 \in WalkEntries(m, root, v)[k]
    /\ ThroughSlot(m, root, v) \in unmapped

\* C3, as stated: after unmap_page(T, i) on a level-4 table every later
\* translate of an address whose walk goes through slot i of T returns
\* PageFault, for as long as the slot is not mapped again.
C3_Original ==
    [][(Called("translate") /\ ThroughUnmapped(memory, cr3, call'.addr))
       => ret'.kind = "fault"]_vars

\* C3, amended: ... every later translate of such an address that misses
\* the TLB returns PageFault (a translation cached before the unmap is still
\* returned, as a hit, until it is evicted or the TLB is invalidated).
C3_UnmapFaultsOnMiss ==
    [][(/\ Called("translate")
        /\ ThroughUnmapped(memory, cr3, call'.addr)
        /\ ~Cached(tlb, call'.addr))
       => (ret'.kind = "fault" /\ ret'.level = 4)]_vars

\* A translate faulted at level 4 on the slot p3[0] after its unmap.
C3_Witness ==
    /\ call.op = "translate" /\ ret.kind = "fault" /\ ret.level = 4
    /\ ThroughUnmapped(memory, cr3, call.addr)
    /\ ThroughSlot(memory, cr3, call.addr) = <<p3, 0>>

SecondReadHits ==
    /\ ret'.tlbev = "hit"
    /\ ret'.kind = "ok"
    /\ FrameOf(ret'.addr) = FrameOf(ret.addr)
    /\ OffsetOf(ret'.addr) = OffsetOf(call'.addr)
    /\ stats'.tlb.hit = stats.tlb.hit + 1
    /\ stats'.tlb.miss = stats.tlb.miss

\* C4, as stated: after a first read that misses the TLB, the read that
\* follows it at once, of any address of the same virtual page, translates
\* to the same frame and is counted as a TLB hit, not as a miss.
C4_Original ==
    [][(/\ call.op = "read" /\ ret.tlbev = "miss"
        /\ Called("read")
        /\ SameVpn(call.addr, call'.addr))
       => SecondReadHits]_vars

\* C4, amended: after a first read that misses the TLB and does not fault,
\* the read that follows it at once, of any address of the same virtual
\* page, translates to the same frame and is counted as a TLB hit, not as a
\* miss (a first read that faults inserts nothing, and the second read
\* misses and faults again).
C4_Step ==
    (/\ call.op = "read" /\ ret.tlbev = "miss" /\ ret.kind = "ok"
     /\ Called("read")
     /\ SameVpn(call.addr, call'.addr))
    => SecondReadHits

C4_SecondReadHits == [][C4_Step]_vars

\* Two reads so far, both translated, one miss then one hit: the second, of
\* vA2, hit the entry the first, of vA, had inserted.
C4_Witness ==
    /\ call.op = "read" /\ call.addr = vA2 /\ ret.tlbev = "hit"
    /\ stats.tlb = [hit |-> 1, miss |-> 1]
    /\ stats.l1.hit + stats.l1.miss = 2
    /\ ran = 3
    /\ FrameOf(ret.addr) = p4

\* C5: map_page and unmap_page leave the TLB as it is; a translate of a
\* page the TLB holds is a hit returning the cached frame whatever the page
\* table says now; the first translate after invalidate_tlb returns what the
\* page table says now (its frame, or PageFault).
C5_Step ==
    /\ (Called("map_page") \/ Called("unmap_page")) => tlb' = tlb
    /\ Called("translate") =>
         \A w \in CachedWays(tlb, call'.addr) :
            /\ ret'.kind = "ok" /\ ret'.tlbev = "hit"
            /\ FrameOf(ret'.addr) = FrameOf(TlbSetOf(tlb, SetIndexOf(call'.addr))[w].addr)
    /\ (call.op = "invalidate_tlb" /\ Called("translate") /\ ret'.kind # "panic")
       => /\ ret'.tlbev = "miss"
          /\ IF PathPresent(memory, cr3, call'.addr)
             THEN /\ ret'.kind = "ok"
                  /\ FrameOf(ret'.addr) =
                        WalkEntries(memory, cr3, call'.addr)[4] \cap (12 .. 51)
             ELSE ret'.kind = "fault"

C5_StaleUntilInvalidate == [][C5_Step]_vars

\* A hit returned p4 for vA although p3[0] now maps p5.
C5_Witness ==
    /\ call.op = "translate" /\ call.addr = vA
    /\ ret.tlbev = "hit" /\ FrameOf(ret.addr) = p4
    /\ PathPresent(memory, cr3, vA)
    /\ WalkEntries(memory, cr3, vA)[4] \cap (12 .. 51) = p5

\* C6: map_page(table, index, target) changes only the entry at slot index
\* of the table (to present, with target's frame) and unmap_page only that
\* slot (to the all-zero entry); every other word of memory, the TLB, the L1
\* cache and cr3 are as before.
C6_Step ==
    /\ (Called("map_page") /\ ret'.kind = "ok")
       => /\ DOMAIN memory' = DOMAIN memory
          /\ \A a \in DOMAIN memory :
               memory'[a] = IF a = Val(call'.addr) + 8 * call'.index
                            THEN (call'.target \cap (12 .. 51)) \cup {0}
                            ELSE memory[a]
          /\ tlb' = tlb /\ cache' = cache /\ cr3' = cr3
    /\ (Called("unmap_page") /\ ret'.kind = "ok")
       => /\ DOMAIN memory' = DOMAIN memory
          /\ \A a \in DOMAIN memory :
               memory'[a] = IF a = Val(call'.addr) + 8 * call'.index
                            THEN {}
                            ELSE memory[a]
          /\ tlb' = tlb /\ cache' = cache /\ cr3' = cr3

C6_EditFrame == [][C6_Step]_vars

\* p3[0] was remapped to p5 with a translation cached and a line loaded,
\* the rest of p3 still mapped.
C6_Witness ==
    /\ call.op = "map_page" /\ call.addr = p3 /\ call.index = 0
    /\ memory[Val(p3)] = p5 \cup {0}
    /\ memory[Val(p3) + 8] = p5 \cup {0}
    /\ memory[Val(p3) + 16] = p6 \cup {0}
    /\ tlb # TlbEmpty /\ cache # L1dCacheEmpty

----------------------------------------------------------------------------
(* Filling one TLB set: translate only, of five pages of set 0 and one of
   set 1. *)

MaxTlbActions == 8

t0 == VirtOf(10, 0, 0, 0, 0)
t1 == VirtOf(10, 0, 0, 128, 8)
t2 == VirtOf(10, 0, 0, 256, 16)
t3 == VirtOf(10, 0, 0, 384, 24)
t4 == VirtOf(10, 0, 1, 0, 32)
tOther == VirtOf(10, 0, 0, 1, 40)
TlbVirts == {t0, t1, t2, t3, t4, tOther}

SetupTlb == ran = 0 /\ RunMany(MainMaps \o TlbMaps)

MoreTlb == ran < MaxTlbActions

NextTlb ==
    \/ MoreTlb /\ SetupTlb
    \/ MoreTlb /\ \E v \in TlbVirts : Translate(v)

SpecTlb == Init /\ [][NextTlb]_vars

\* The ways of a set that are not valid, and the claim's victim: the lowest
\* invalid way, else the lowest way among those of least access count.
InvalidWays(tlb_set) == {i \in 0 .. 3 : ~tlb_set[i].valid}
LeastUsedWays(tlb_set) ==
    {i \in 0 .. 3 : \A j \in 0 .. 3 : tlb_set[i].access <= tlb_set[j].access}
Lowest(ways) == CHOOSE i \in ways : \A j \in ways : i <= j
ClaimedTlbVictim(tlb_set) ==
    IF InvalidWays(tlb_set) # {} THEN Lowest(InvalidWays(tlb_set))
    ELSE Lowest(LeastUsedWays(tlb_set))

MissInsert == Called("translate") /\ ret'.tlbev = "miss" /\ ret'.kind = "ok"

\* C7: on a TLB miss followed by a successful walk the way that receives
\* the translation is the lowest-indexed invalid way of the set if there is
\* one, otherwise the way of least access count, the lowest index winning
\* among equal counts; the other ways keep their tags.
C7_Step ==
    MissInsert =>
      LET before == TlbSetOf(tlb, SetIndexOf(call'.addr))
          after == TlbSetOf(tlb', SetIndexOf(call'.addr))
          k == ClaimedTlbVictim(before)
      IN  /\ after[k].valid /\ after[k].tag = TagOf(call'.addr)
          /\ \A j \in 0 .. 3 \ {k} :
                after[j].tag = before[j].tag /\ after[j].valid = before[j].valid

C7_TlbVictim == [][C7_Step]_vars

\* Five misses and one hit in set 0: the fifth miss found the counts
\* (1, 0, 0, 1) and took way 1, the lower of the two ways of count 0.
C7_Witness ==
    /\ call.op = "translate" /\ ret.tlbev = "miss" /\ ret.kind = "ok"
    /\ stats.tlb = [hit |-> 1, miss |-> 5]
    /\ SetIndexOf(call.addr) = 0
    /\ \A j \in 0 .. 3 : TlbSetOf(tlb, 0)[j].valid
    /\ TlbSetOf(tlb, 0)[1].tag = TagOf(call.addr)
    /\ TlbSetOf(tlb, 1) = TlbEntrySetInvalid

\* C8: right after a miss that inserts a translation, the victim way of the
\* indexed set is valid with the new tag, the walked frame and access count
\* exactly 1; the other three ways have access count 0 and the valid, tag
\* and addr they had; every other set is as before.
C8_Step ==
    MissInsert =>
      LET idx == SetIndexOf(call'.addr)
          before == TlbSetOf(tlb, idx)
          after == TlbSetOf(tlb', idx)
          k == ClaimedTlbVictim(before)
      IN  /\ after[k] = [valid |-> TRUE, tag |-> TagOf(call'.addr),
                         addr |-> WalkEntries(memory, cr3, call'.addr)[4]
                                    \cap (12 .. 51),
                         access |-> 1]
          /\ \A j \in 0 .. 3 \ {k} : after[j] = [before[j] EXCEPT !.access = 0]
          /\ \A i \in 0 .. 127 \ {idx} : TlbSetOf(tlb', i) = TlbSetOf(tlb, i)

C8_AfterInsert == [][C8_Step]_vars

\* A miss in set 0 after two hits there and one insertion in set 1: the
\* counts of set 0 are 1 for the victim and 0 for the rest, set 1 keeps its
\* entry and its count.
C8_Witness ==
    /\ call.op = "translate" /\ ret.tlbev = "miss" /\ ret.kind = "ok"
    /\ SetIndexOf(call.addr) = 0
    /\ stats.tlb.hit >= 2
    /\ \E k \in 0 .. 3 :
          /\ TlbSetOf(tlb, 0)[k].tag = TagOf(call.addr)
          /\ TlbSetOf(tlb, 0)[k].access = 1
          /\ \A j \in 0 .. 3 \ {k} :
                TlbSetOf(tlb, 0)[j].valid /\ TlbSetOf(tlb, 0)[j].access = 0
    /\ TlbSetOf(tlb, 1)[0] = [valid |-> TRUE, tag |-> TagOf(tOther),
                              addr |-> p5, access |-> 1]

----------------------------------------------------------------------------
(* One hot page: vA translated again and again until its count saturates,
   its homonym vB, of the same TLB set, translated among the first calls
   only. *)

MaxHotActions == 259
MaxCold == 4

SetupHot == ran = 0 /\ RunMany(MainMaps)

NextHot ==
    \/ ran < MaxHotActions /\ SetupHot
    \/ ran < MaxHotActions /\ Translate(vA)
    \/ ran < MaxCold /\ Translate(vB)

SpecHot == Init /\ [][NextHot]_vars

\* C9: a TLB hit adds 1 to the access count of the matching way, except
\* that a count of 255 stays 255 (it never wraps to 0), and changes nothing
\* else in the TLB; the address returned is the cached frame with the page
\* offset of the address asked for.
C9_Step ==
    Called("translate") =>
      \A w \in CachedWays(tlb, call'.addr) :
        LET idx == SetIndexOf(call'.addr)
            before == TlbSetOf(tlb, idx)
            after == TlbSetOf(tlb', idx)
        IN  /\ ret'.tlbev = "hit" /\ ret'.kind = "ok"
            /\ after[w].access =
                  IF before[w].access = 255 THEN 255 ELSE before[w].access + 1
            /\ after[w].access # 0
            /\ after[w] = [before[w] EXCEPT !.access = after[w].access]
            /\ \A j \in 0 .. 3 \ {w} : after[j] = before[j]
            /\ \A i \in 0 .. 127 \ {idx} : TlbSetOf(tlb', i) = TlbSetOf(tlb, i)
            /\ FrameOf(ret'.addr) = FrameOf(before[w].addr)
            /\ OffsetOf(ret'.addr) = OffsetOf(call'.addr)

C9_HitSaturates == [][C9_Step]_vars

\* vA was hit 256 times after vB's insertion had reset its count to 0: the
\* count stands at 255, vB's entry beside it untouched.
C9_Witness ==
    /\ call.op = "translate" /\ call.addr = vA /\ ret.tlbev = "hit"
    /\ stats.tlb = [hit |-> 256, miss |-> 2]
    /\ TlbSetOf(tlb, 0)[0] = [valid |-> TRUE, tag |-> TagOf(vA),
                              addr |-> p4, access |-> 255]
    /\ TlbSetOf(tlb, 0)[1] = [valid |-> TRUE, tag |-> TagOf(vB),
                              addr |-> p4, access |-> 1]

----------------------------------------------------------------------------
(* Filling one L1 set: read_phys of the first line of the pages main
   allocates, all of L1 set 0, and of one line of set 1.  A page is read
   for the first time only after the pages before it in L1Reads. *)

MaxL1Actions == 12

PhysOf(page, offset) == with_offset(page, U(offset))

L1Reads ==
    << PhysOf(Cr3, 80), PhysOf(p1, 0), PhysOf(p2, 8), PhysOf(p3, 16), p4, p5,
       p6, PhysOf(p7, 1), PhysOf(p8, 63), PhysOf(p9, 40), NextPage(11) >>

SetupL1 == ran = 0 /\ RunMany(MainMaps)

MoreL1 == ran < MaxL1Actions

NextL1 ==
    \/ MoreL1 /\ SetupL1
    \/ MoreL1 /\ \E n \in 1 .. Len(L1Reads) :
                    n <= stats.l1.miss + 1 /\ ReadPhys(L1Reads[n])

SpecL1 == Init /\ [][NextL1]_vars

L1IndexOf(a) == Val({i - 6 : i \in {j \in a : j >= 6 /\ j < 12}})
L1TagOf(a) == {i - 12 : i \in {j \in a : j >= 12}}
InvalidL1Ways(cache_set) == {i \in 0 .. 7 : ~cache_set[i].valid}
ClaimedL1Victim(cache_set) ==
    IF InvalidL1Ways(cache_set) = {} THEN 0
    ELSE CHOOSE i \in InvalidL1Ways(cache_set) :
            \A j \in InvalidL1Ways(cache_set) : j <= i

\* C10: on an L1 miss the way that receives the line is the highest-indexed
\* way of the indexed set that is not valid, or way 0 when all eight ways
\* are valid; the other ways of the set are as before.
C10_Step ==
    (Called("read_phys") /\ ret'.l1ev = "miss") =>
      LET before == CacheSetOf(cache, L1IndexOf(call'.addr))
          after == CacheSetOf(cache', L1IndexOf(call'.addr))
          k == ClaimedL1Victim(before)
      IN  /\ after[k].valid /\ after[k].tag = L1TagOf(call'.addr)
          /\ \A j \in 0 .. 7 \ {k} : after[j] = before[j]

C10_L1Victim == [][C10_Step]_vars

\* Nine misses in set 0: the first eight filled ways 7 down to 0, the ninth
\* (the line of p9) replaced way 0.
C10_Witness ==
    /\ call.op = "read_phys" /\ call.addr = PhysOf(p9, 40) /\ ret.l1ev = "miss"
    /\ stats.l1.miss = 10
    /\ \A j \in 0 .. 7 : CacheSetOf(cache, 0)[j].valid
    /\ CacheSetOf(cache, 0)[0].tag = L1TagOf(p9)
    /\ CacheSetOf(cache, 0)[1].tag = L1TagOf(p7)
    /\ CacheSetOf(cache, 0)[7].tag = L1TagOf(p1)

----------------------------------------------------------------------------
(* Victims of both caches side by side: translate of the five pages of TLB
   set 0 and read_phys of two lines of L1 set 0. *)

MaxTieActions == 7

TieVirts == {t0, t1, t2, t3, t4}
TiePhys == {PhysOf(p1, 0), PhysOf(p2, 8)}

SetupTie == ran = 0 /\ RunMany(MainMaps \o TlbMaps)

MoreTie == ran < MaxTieActions

NextTie ==
    \/ MoreTie /\ SetupTie
    \/ MoreTie /\ \E v \in TieVirts : Translate(v)
    \/ MoreTie /\ \E a \in TiePhys : ReadPhys(a)

SpecTie == Init /\ [][NextTie]_vars

\* The ways equally eligible as victim: the invalid ones if there are any,
\* else the valid ones of least count (an L1 way has no count).
EligibleTlbWays(tlb_set) ==
    IF InvalidWays(tlb_set) # {} THEN InvalidWays(tlb_set)
    ELSE LeastUsedWays(tlb_set)
EligibleL1Ways(cache_set) ==
    IF InvalidL1Ways(cache_set) # {} THEN InvalidL1Ways(cache_set)
    ELSE 0 .. 7
Highest(ways) == CHOOSE i \in ways : \A j \in ways : j <= i

\* The way a miss put the new tag in.
TlbTookWay(k) ==
    LET after == TlbSetOf(tlb', SetIndexOf(call'.addr))
    IN  after[k].valid /\ after[k].tag = TagOf(call'.addr) /\ after[k].access = 1
L1TookWay(k) ==
    LET before == CacheSetOf(cache, L1IndexOf(call'.addr))
        after == CacheSetOf(cache', L1IndexOf(call'.addr))
    IN  /\ after[k].valid /\ after[k].tag = L1TagOf(call'.addr)
        /\ \A j \in 0 .. 7 \ {k} : after[j] = before[j]
L1Miss == Called("read_phys") /\ ret'.l1ev = "miss"

\* C11, as stated: in TLB and in L1 victim selection alike, when several
\* ways are equally eligible (several invalid ways, or several valid ways of
\* the same least count) the way of lowest index is the one chosen.
C11_Original ==
    [][/\ MissInsert =>
            TlbTookWay(Lowest(EligibleTlbWays(TlbSetOf(tlb, SetIndexOf(call'.addr)))))
       /\ L1Miss =>
            L1TookWay(Lowest(EligibleL1Ways(CacheSetOf(cache, L1IndexOf(call'.addr)))))
      ]_vars

\* C11, amended: in TLB victim selection the way of lowest index is chosen
\* among equally eligible ways; in L1 victim selection the way of highest
\* index is chosen among several invalid ways, and way 0 when no way is
\* invalid.
C11_Step ==
    /\ MissInsert =>
         TlbTookWay(Lowest(EligibleTlbWays(TlbSetOf(tlb, SetIndexOf(call'.addr)))))
    /\ L1Miss =>
         LET before == CacheSetOf(cache, L1IndexOf(call'.addr))
         IN  IF InvalidL1Ways(before) # {}
             THEN L1TookWay(Highest(InvalidL1Ways(before)))
             ELSE L1TookWay(0)

C11_TieBreak == [][C11_Step]_vars

\* Five TLB misses: the fifth found four valid ways, three of count 0, and
\* took way 0.  One L1 miss: of eight invalid ways, way 7 took the line.
C11_Witness ==
    /\ stats.tlb = [hit |-> 0, miss |-> 5]
    /\ \A j \in 0 .. 3 : TlbSetOf(tlb, 0)[j].valid
    /\ TlbSetOf(tlb, 0)[0].access = 1
    /\ \A j \in 1 .. 3 : TlbSetOf(tlb, 0)[j].access = 0
    /\ stats.l1 = [hit |-> 0, miss |-> 1]
    /\ InvalidL1Ways(CacheSetOf(cache, 0)) = 0 .. 6

----------------------------------------------------------------------------
(* read_phys against memory, in the L1 fill scenario *)

\* Byte b of a word, the byte of memory at address n, and the eight words
\* of the 64 bytes around address n, by arithmetic on the address.
ByteOfWord(w, b) == Val({i - 8 * b : i \in {j \in w : j >= 8 * b /\ j < 8 * b + 8}})
MemByte(m, n) == ByteOfWord(MemWord(m, 8 * (n \div 8)), n % 8)
MemLine(m, n) == [w \in 0 .. 7 |-> MemWord(m, 64 * (n \div 64) + 8 * w)]
L1MatchingWays(cache_set, a) ==
    {i \in 0 .. 7 : cache_set[i].valid /\ cache_set[i].tag = L1TagOf(a)}

\* C12: read_phys(a) works on set (frame offset >> 6) & 63 with tag a >> 12.
\* On a miss it stores the tag and the 64 bytes of memory from a & ~63 in
\* one way of that set, marks the way valid and returns the byte of memory
\* at a.  On a hit it returns byte a & 63 of the matching way's line and
\* changes no L1 way.
C12_Step ==
    (Called("read_phys") /\ ret'.kind = "ok") =>
      LET a == call'.addr
          idx == L1IndexOf(a)
          before == CacheSetOf(cache, idx)
          after == CacheSetOf(cache', idx)
          hits == L1MatchingWays(before, a)
      IN  /\ \A i \in 0 .. 63 \ {idx} : CacheSetOf(cache', i) = CacheSetOf(cache, i)
          /\ ret'.l1ev = IF hits = {} THEN "miss" ELSE "hit"
          /\ hits = {} =>
               /\ \E k \in 0 .. 7 :
                     /\ after[k] = [valid |-> TRUE, tag |-> L1TagOf(a),
                                    line |-> MemLine(memory, Val(a))]
                     /\ \A j \in 0 .. 7 \ {k} : after[j] = before[j]
               /\ ret'.byte = MemByte(memory, Val(a))
          /\ \A k \in hits :
               /\ cache' = cache
               /\ ret'.byte = ByteOfWord(before[k].line[(Val(a) % 64) \div 8],
                                         Val(a) % 8)

C12_ReadPhys == [][C12_Step]_vars

\* Byte 1 of p7[0], which maps p8 = 0x6C000, read twice: the second read
\* hit the line the first had loaded and returned 0xC0.
C12_Witness ==
    /\ call.op = "read_phys" /\ call.addr = PhysOf(p7, 1)
    /\ ret.l1ev = "hit" /\ ret.byte = 192
    /\ MemByte(memory, Val(p7) + 1) = 192
    /\ \E k \in 0 .. 7 :
          CacheSetOf(cache, 0)[k] = [valid |-> TRUE, tag |-> L1TagOf(p7),
                                     line |-> MemLine(memory, Val(p7))]

----------------------------------------------------------------------------
(* invalidate_tlb, in the page-table edit scenario *)

\* C13: invalidate_tlb leaves every way of every TLB set invalid with
\* access count 0, so that the next translate (alone or within read) of any
\* address is a TLB miss that walks the page table; memory, every L1 way and
\* cr3 are as before.
C13_Step ==
    /\ Called("invalidate_tlb") =>
         /\ \A i \in 0 .. 127 : \A j \in 0 .. 3 :
               ~TlbSetOf(tlb', i)[j].valid /\ TlbSetOf(tlb', i)[j].access = 0
         /\ memory' = memory /\ cache' = cache /\ cr3' = cr3
    /\ (call.op = "invalidate_tlb" /\ (Called("translate") \/ Called("read"))) =>
         /\ ret'.tlbev = "miss"
         /\ ret'.level \in 1 .. 4
         /\ stats'.tlb = [stats.tlb EXCEPT !.miss = @ + 1]
         /\ ret'.kind = "ok" =>
              FrameOf(ret'.addr) =
                 WalkEntries(memory, cr3, call'.addr)[4] \cap (12 .. 51)

C13_InvalidateTlb == [][C13_Step]_vars

\* vA missed, hit, and after invalidate_tlb missed again: two misses and
\* one hit in five calls, and a single valid way in its set.
C13_Witness ==
    /\ ran = 5
    /\ call.op = "translate" /\ call.addr = vA
    /\ ret.tlbev = "miss" /\ ret.kind = "ok"
    /\ stats.tlb = [hit |-> 1, miss |-> 2]
    /\ Cardinality({j \in 0 .. 3 : TlbSetOf(tlb, 0)[j].valid}) = 1

----------------------------------------------------------------------------
(* Every operation of the machine: main's maps at the start or not at all,
   then translate, read, read_phys, map_page, unmap_page, invalidate_tlb and
   dump_stats in any order, on inside and outside addresses. *)

MaxAllActions == 4

AllOnes == 0 .. 63
LastByte == U(MemLen - 1)
AllPhys == {PhysOf(p1, 0), PhysOf(p7, 1), LastByte, Beyond, AllOnes}
AllMaps == WalkMaps \cup {EdgeMaps[n] : n \in 1 .. Len(EdgeMaps)}
AllUnmaps == WalkUnmaps \cup {UnMap(Straddle, 511), UnMap(Beyond, 0)}

MoreAll == ran < MaxAllActions

NextAll ==
    \/ MoreAll /\ Setup
    \/ MoreAll /\ \E v \in WalkVirts : Translate(v)
    \/ MoreAll /\ \E v \in WalkReads : Read(v)
    \/ MoreAll /\ \E a \in AllPhys : ReadPhys(a)
    \/ MoreAll /\ \E e \in AllMaps : MapPage(e.table, e.index, e.target)
    \/ MoreAll /\ \E e \in AllUnmaps : UnmapPage(e.table, e.index)
    \/ MoreAll /\ InvalidateTlb
    \/ MoreAll /\ DumpStats

SpecAll == Init /\ [][NextAll]_vars

\* The L1 contents a call of the machine can leave from the current state:
\* read_phys and read leave what their lookup or fill makes of the cache;
\* translate, map_page, unmap_page, invalidate_tlb and dump_stats do not
\* write the cache.  impl Machine has no other method and Action no other
\* variant.
OfferedCaches ==
    {read_phys(cache, memory, stats, a).cache : a \in AllPhys}
    \cup {read(tlb, cache, memory, stats, log, cr3, v).cache : v \in WalkReads}
    \cup {cache}

\* C14: the machine offers an operation, invalidate_cache, that resets the
\* L1 cache to its empty state, every way of every set invalid (so that the
\* next read_phys of any address is a miss): when the cache holds a line,
\* some call the machine offers leaves it empty.
C14_InvalidateCacheOffered ==
    (cache # L1dCacheEmpty /\ ~panicked)
    => \E c \in OfferedCaches :
          \A i \in 0 .. 63 : \A j \in 0 .. 7 : ~CacheSetOf(c, i)[j].valid

----------------------------------------------------------------------------
(* Runs of reads at a fixed step from a page-aligned base, as main's Read
   lists: bytes one after the other (locality) or one per line (stride). *)

MaxRun == 100
MaxLocalActions == 203

\* Page-aligned bases: 0x50000000000, its homonym through p2[1], and the
\* page after it.
RunBases == {VirtOf(10, 0, 0, 0, 0), VirtOf(10, 0, 1, 0, 0), VirtOf(10, 0, 0, 1, 0)}

\* The reads counted since the statistics were last reset.
ReadsCounted == stats.tlb.hit + stats.tlb.miss

\* The address a run reads next: one of the bases when no read is counted
\* yet, the last read's address plus step while the run is under way.
RunNext(step) ==
    IF ReadsCounted = 0 THEN RunBases
    ELSE IF call.op = "read" /\ ReadsCounted < MaxRun
         THEN {VirtAdd(call.addr, step)}
         ELSE {}

ReadRun(step) == \E v \in RunNext(step) : Read(v)

RunDone == call.op = "read" /\ ReadsCounted = MaxRun

NextLocal ==
    \/ ran < MaxLocalActions /\ Setup
    \/ ran < MaxLocalActions /\ ReadRun(1)
    \/ ran < MaxLocalActions /\ RunDone /\ DumpStats

SpecLocal == Init /\ [][NextLocal]_vars

\* C15: a run of 100 reads of consecutive byte addresses from a page-aligned
\* address, none of which faults, counts exactly 1 TLB miss, the first read
\* (the page not being in the TLB before it), and at most 2 L1 misses; every
\* other access is a TLB hit and an L1 hit.
C15_Step ==
    (Called("read") /\ ret'.kind = "ok") =>
      LET k == Val(OffsetOf(call'.addr))
      IN  /\ (k = 0 /\ ~Cached(tlb, call'.addr)) =>
               ret'.tlbev = "miss" /\ stats'.tlb.miss = 1
          /\ k > 0 => ret'.tlbev = "hit" /\ stats'.tlb.miss = stats.tlb.miss
          /\ ret'.l1ev = "miss" => k \in {0, 64}
          /\ (k = MaxRun - 1 /\ stats'.page_faults = 0) =>
               /\ stats'.tlb.miss <= 1
               /\ stats'.tlb.hit + stats'.tlb.miss = MaxRun
               /\ stats'.l1.miss <= 2
               /\ stats'.l1.hit + stats'.l1.miss = MaxRun
               /\ ran' = MaxRun + 1 =>
                    stats'.tlb = [hit |-> MaxRun - 1, miss |-> 1]

----------------------------------------------------------------------------
(* One run of reads a line apart, on main's page table or with p3[1]
   remapped to the frame of p3[0] before the run. *)

MaxStrideActions == 102

StrideEdits == {Map(p3, 1, p4)}

NextStride ==
    \/ ran < MaxStrideActions /\ Setup
    \/ ran < MaxStrideActions /\ ReadsCounted = 0
         /\ \E e \in StrideEdits : MapPage(e.table, e.index, e.target)
    \/ ran < MaxStrideActions /\ ReadRun(LineSize)

SpecStride == Init /\ [][NextStride]_vars

\* The base of the run that has come to call.addr, and the frames the page
\* table maps the base's page and the page after it to.
RunBase == CHOOSE b \in RunBases : VirtAdd(b, LineSize * (ReadsCounted - 1)) = call.addr
MappedFrame(v) == WalkEntries(memory, cr3, v)[4] \cap (12 .. 51)
InRun == call.op = "read" /\ stats.page_faults = 0 /\ ReadsCounted >= 1

----------------------------------------------------------------------------
(* Filling an L1 set and a TLB set by reads: ten pages whose first lines
   fall in L1 set 0, five of them in TLB set 0. A page is read for the
   first time in the order of FillReads, the last one is a second name of
   the first one's frame; invalidate_tlb empties a full TLB set 0. *)

MaxFillActions == 12

FillReads ==
    << t0, t1, t2, t3, VirtOf(10, 0, 0, 1, 40), VirtOf(10, 0, 0, 2, 48),
       VirtOf(32, 0, 0, 200, 56), VirtOf(32, 0, 0, 201, 0),
       VirtOf(32, 0, 0, 202, 8), t4 >>

NextFill ==
    \/ ran < MaxFillActions /\ SetupTlb
    \/ ran < MaxFillActions /\ \E n \in 1 .. Len(FillReads) :
                                  n <= stats.l1.miss + 1 /\ Read(FillReads[n])
    \/ /\ ran < MaxFillActions
       /\ \A j \in 0 .. 3 : TlbSetOf(tlb, 0)[j].valid
       /\ InvalidateTlb

SpecFill == Init /\ [][NextFill]_vars

ValidTlbWays(tlb_set) == {j \in 0 .. 3 : tlb_set[j].valid}
ValidL1Ways(cache_set) == {j \in 0 .. 7 : cache_set[j].valid}

\* C18: in every reachable state no two valid ways of one TLB set carry the
\* same tag and no two valid ways of one L1 set carry the same tag; hence a
\* lookup matches at most one way; a TLB set holds at most 4 and an L1 set
\* at most 8 valid entries.
C18_UniqueTags ==
    /\ \A i \in 0 .. 127 :
         LET tlb_set == TlbSetOf(tlb, i)
         IN  /\ \A j, k \in ValidTlbWays(tlb_set) :
                  tlb_set[j].tag = tlb_set[k].tag => j = k
             /\ Cardinality(ValidTlbWays(tlb_set)) <= 4
             /\ DOMAIN tlb_set = 0 .. 3
    /\ \A i \in 0 .. 63 :
         LET cache_set == CacheSetOf(cache, i)
         IN  /\ \A j, k \in ValidL1Ways(cache_set) :
                  cache_set[j].tag = cache_set[k].tag => j = k
             /\ Cardinality(ValidL1Ways(cache_set)) <= 8
             /\ DOMAIN cache_set = 0 .. 7
    /\ \A n \in 1 .. Len(FillReads) :
         Cardinality(CachedWays(tlb, FillReads[n])) <= 1

\* TLB set 0 is full after a fifth insertion in it, and L1 set 0 is full
\* after a ninth line was loaded into it.
C18_Witness ==
    /\ ValidTlbWays(TlbSetOf(tlb, 0)) = 0 .. 3
    /\ ValidL1Ways(CacheSetOf(cache, 0)) = 0 .. 7
    /\ stats.l1.miss = 9
    /\ Cardinality({n \in {1, 2, 3, 4, 10} : Cached(tlb, FillReads[n])}) = 4
    /\ call.op = "read" /\ ret.tlbev = "miss" /\ SetIndexOf(call.addr) = 0

----------------------------------------------------------------------------
(* Accesses to physical memory *)

\* The len bytes from addr lie inside the buffer: addr + len <= length, as
\* numbers (an address with a bit above 30 is past any length below 2^31).
Inside(addr, len) == (\A i \in addr : i <= 30) /\ Val(addr) + len <= MemLen

\* The access of len bytes at addr ends the run in every build / in none.
Aborts(addr, len) ==
    \A build \in Builds : mem_access(addr, len, build).kind = "panic"
Runs(addr, len) ==
    \A build \in Builds : mem_access(addr, len, build).kind = "ok"

\* The table the walk of v from root reads at level k: root, then the
\* address in the entry of the level before.
WalkTables(m, root, v) ==
    LET t[k \in 1 .. 4] ==
            IF k = 1 THEN root
            ELSE phys_addr(TableEntry(m, t[k - 1], IndexAt(v, k - 1)))
    IN  t

\* The ways' lines are those of before the call.
LinesKept ==
    \A i \in 0 .. 63 : \A j \in 0 .. 7 :
        CacheSetOf(cache', i)[j].line = CacheSetOf(cache, i)[j].line

\* The access of len bytes at addr that a call makes last: inside the
\* buffer when the call returns, outside it when the call panics.
LastAccess(addr, len) ==
    /\ Inside(addr, len) => Runs(addr, len) /\ ret'.kind # "panic"
    /\ ~Inside(addr, len) => Aborts(addr, len) /\ ret'.kind = "panic"
                             /\ memory' = memory /\ LinesKept

C19_Step ==
    /\ Called("map_page") \/ Called("unmap_page") =>
         LastAccess(call'.addr, PageTableSize)
    /\ Called("read_phys") /\ ret'.l1ev = "miss" =>
         LastAccess(call'.addr \ (0 .. LineBits - 1), LineSize)
    /\ Called("read") /\ ret'.l1ev = "miss" =>
         LastAccess(ret'.addr \ (0 .. LineBits - 1), LineSize)
    /\ (Called("translate") \/ Called("read")) /\ ret'.tlbev = "miss" =>
         LET t == WalkTables(memory, cr3, call'.addr)
             stopped == ret'.kind = "panic" /\ ret'.l1ev = "none"
         IN  /\ ret'.level \in 1 .. 4
             /\ \A k \in 1 .. ret'.level :
                  IF k = ret'.level /\ stopped
                  THEN /\ ~Inside(t[k], PageTableSize)
                       /\ Aborts(t[k], PageTableSize)
                       /\ tlb' = tlb /\ cache' = cache /\ memory' = memory
                  ELSE Inside(t[k], PageTableSize) /\ Runs(t[k], PageTableSize)
    /\ \A a \in DOMAIN memory' : a >= MemLen => memory'[a] = Zero

\* C19: every access to physical memory of size n at address a (the tables
\* read by the walk, the 64-byte line load of read_phys, the table edited by
\* map_page / unmap_page) lies inside the buffer (a + n <= length), or the
\* call aborts the run without the access: no word past the buffer is ever
\* written and no line is loaded, also when a + n exceeds the machine word.
C19_AccessInside == [][C19_Step]_vars

\* After main's maps, map_page on the last page of the address space, whose
\* end exceeds the machine word, has aborted the run.
C19_Witness ==
    /\ call.op = "map_page" /\ call.addr = Top /\ ret.kind = "panic"
    /\ ~Inside(Top, PageTableSize)
    /\ is_present(TableEntry(memory, Cr3, 10))
    /\ \A b \in Builds : mem_access(Top, PageTableSize, b).at # "check"

----------------------------------------------------------------------------
(* What translate and a faulting read leave alone *)

\* Every way of every TLB set is as before the call: valid, tag, access
\* count and address.
TlbWaysKept ==
    \A i \in 0 .. 127 : \A j \in 0 .. 3 : TlbSetOf(tlb', i)[j] = TlbSetOf(tlb, i)[j]

\* Every way of every L1 set is as before the call.
L1WaysKept ==
    \A i \in 0 .. 63 : \A j \in 0 .. 7 : CacheSetOf(cache', i)[j] = CacheSetOf(cache, i)[j]

C20_Step ==
    /\ Called("translate") => memory' = memory /\ L1WaysKept
    /\ (Called("translate") \/ Called("read")) /\ ret'.kind = "fault" =>
         /\ TlbWaysKept
         /\ L1WaysKept
         /\ memory' = memory
         /\ stats'.l1 = stats.l1
         /\ ret'.l1ev = "none"

\* C20: translate never modifies physical memory or any L1 way; a translate
\* or read that ends in PageFault also leaves every TLB way (valid, tag,
\* access count, address) as before the call and does no L1 lookup: no L1
\* hit or miss is counted.
C20_FaultLeaves == [][C20_Step]_vars

\* A read has faulted at the last level of the walk while the set of its
\* page holds a valid way with a count, left by another page.
C20_Witness ==
    /\ call.op = "read" /\ ret.kind = "fault" /\ ret.level = 4
    /\ \E j \in 0 .. 3 :
         LET way == TlbSetOf(tlb, SetIndexOf(call.addr))[j]
         IN  way.valid /\ way.access >= 1 /\ way.tag # TagOf(call.addr)
    /\ stats.l1 = CacheStatsNew

----------------------------------------------------------------------------
(* The L1 cache against memory *)

\* The address of the block that way j of set i holds.
BlockOf(c, i, j) == Val(Shl(CacheSetOf(c, i)[j].tag, 12)) + LineSize * i

\* Way j of set i holds the 64 bytes memory m has at its block.
FreshWay(c, m, i, j) == CacheSetOf(c, i)[j].line = MemLine(m, BlockOf(c, i, j))

\* The physical address the last call read: read_phys's argument, or the
\* address read's translation produced.
AddrRead == IF call'.op = "read" THEN ret'.addr ELSE call'.addr

ReadReturned == (Called("read_phys") \/ Called("read")) /\ ret'.kind = "ok"

C21_Step ==
    /\ ReadReturned =>
         LET a == AddrRead
             idx == L1IndexOf(a)
             ways == L1MatchingWays(CacheSetOf(cache', idx), a)
         IN  /\ ways # {}
             /\ \A k \in ways :
                  /\ ret'.byte = ByteOfWord(CacheSetOf(cache', idx)[k].line[(Val(a) % 64) \div 8],
                                            Val(a) % 8)
                  /\ FreshWay(cache', memory', idx, k) =>
                       ret'.byte = MemByte(memory', Val(a))
             /\ ret'.l1ev = "miss" => ret'.byte = MemByte(memory', Val(a))
    /\ ~panicked' =>
         \A i \in 0 .. 63 : \A j \in 0 .. 7 :
            LET was == CacheSetOf(cache, i)[j]
                is == CacheSetOf(cache', i)[j]
                blk == BlockOf(cache', i, j)
            IN  /\ is.valid
                /\ \/ is # was
                   \/ /\ FreshWay(cache, memory, i, j)
                      /\ MemLine(memory', blk) = MemLine(memory, blk)
                => FreshWay(cache', memory', i, j)

----------------------------------------------------------------------------
(* TLB entries against virtual page numbers *)

\* The virtual page number of v, and the one a way of v's set stands for:
\* its tag with the index of the set, the low 7 bits of v's, below it.
VpnOf(v) == Shr(v, 12)
WayVpn(v, way) == way.tag \cup (VpnOf(v) \cap (0 .. 6))

\* valid, tag and addr of the way are as before the call.  (The TLB is
\* kept as the sets written since it was last empty: the others are equal.)
EntryKept(was, is) ==
    is.valid = was.valid /\ is.tag = was.tag /\ is.addr = was.addr

C22_Step ==
    Called("translate") =>
      LET v == call'.addr
          idx == SetIndexOf(v)
          was == TlbSetOf(tlb, idx)
          is == TlbSetOf(tlb', idx)
          same == {j \in 0 .. 3 : was[j].valid /\ WayVpn(v, was[j]) = VpnOf(v)}
      IN  /\ \A i \in (DOMAIN tlb \cup DOMAIN tlb') \ {idx} :
                TlbSetOf(tlb', i) = TlbSetOf(tlb, i)
          /\ \A j \in 0 .. 3 : is[j].valid => is[j].tag \cap (0 .. 6) = {}
          /\ ret'.tlbev = "hit" =>
               /\ Cardinality(same) = 1
               /\ \A k \in same : /\ FrameOf(ret'.addr) = was[k].addr
                                  /\ OffsetOf(ret'.addr) = OffsetOf(v)
               /\ \A j \in 0 .. 3 : EntryKept(was[j], is[j])
          /\ ret'.tlbev = "miss" => same = {}
          /\ MissInsert =>
               \E walked \in {FrameOf(WalkEntries(memory, cr3, v)[4]) \cap (12 .. 51)} :
               \E k \in 0 .. 3 :
                  /\ is[k].valid /\ WayVpn(v, is[k]) = VpnOf(v)
                  /\ is[k].addr = walked
                  /\ FrameOf(ret'.addr) = walked
                  /\ \A j \in 0 .. 3 \ {k} : EntryKept(was[j], is[j])
          /\ ret'.kind = "fault" => is = was

\* C22: a translate(v) that hits returns the frame of a valid way of v's
\* set whose tag and set index together are v's virtual page number, a way
\* that received that frame from the walk of an address of that page; a
\* valid way that stands for another page never matches v.
C22_NoFalseHit == [][C22_Step]_vars

\* t4 hits in a full set 0: the other three ways hold pages of the same
\* set, one of them t4's homonym t0 with the same frame, and tOther's page,
\* which has t0's tag, sits in set 1.
C22_Witness ==
    /\ call.op = "translate" /\ call.addr = t4 /\ ret.tlbev = "hit"
    /\ \A j \in 0 .. 3 : TlbSetOf(tlb, 0)[j].valid
    /\ Cached(tlb, t0) /\ Cached(tlb, tOther)
    /\ \E j, k \in 0 .. 3 : /\ j # k
                            /\ TlbSetOf(tlb, 0)[j].addr = TlbSetOf(tlb, 0)[k].addr

----------------------------------------------------------------------------
(* Consecutive misses in a full TLB set *)

\* The access counts of the ways of a set, and the way that received the
\* last insertion when no hit in the set came after it: the one way of
\* count 1 among ways of count 0.
Counts(tlb_set) == [j \in 0 .. 3 |-> tlb_set[j].access]
LastVictims(tlb_set) ==
    {p \in 0 .. 3 : Counts(tlb_set) = [j \in 0 .. 3 |-> IF j = p THEN 1 ELSE 0]}

C23_Step ==
    MissInsert =>
      LET v == call'.addr
          was == TlbSetOf(tlb, SetIndexOf(v))
          is == TlbSetOf(tlb', SetIndexOf(v))
          full == \A j \in 0 .. 3 : was[j].valid
      IN  /\ \E k \in 0 .. 3 : is[k].tag = TagOf(v) /\ LastVictims(is) = {k}
          /\ full =>
               \A p \in LastVictims(was) :
                  LET k == IF p = 0 THEN 1 ELSE 0
                  IN  /\ is[k].tag = TagOf(v)
                      /\ is[k].tag # was[k].tag
                      /\ \A j \in 0 .. 3 \ {k} : EntryKept(was[j], is[j])
          /\ (/\ full
              /\ call.op = "translate" /\ ret.tlbev = "miss" /\ ret.kind = "ok"
              /\ SetIndexOf(call.addr) = SetIndexOf(v)) =>
               \E p \in 0 .. 3 :
                  /\ was[p].tag = TagOf(call.addr)
                  /\ LastVictims(was) = {p}
                  /\ is[IF p = 0 THEN 1 ELSE 0].tag = TagOf(v)
                  /\ EntryKept(was[2], is[2]) /\ EntryKept(was[3], is[3])

\* C23: when a miss-insert in a TLB set leaves the set full and the next
\* miss-insert in that set comes with no hit in the set in between, the
\* second victim is way 0, or way 1 when way 0 was the first victim; so
\* consecutive misses to a full set evict ways 0 and 1 in turn and ways 2
\* and 3 keep their entries.
C23_ConsecutiveMisses == [][C23_Step]_vars

\* Three misses in a row after the four that filled set 0 have evicted
\* way 0, way 1 and way 0 again: t1 and t0 sit in ways 0 and 1, ways 2 and
\* 3 still hold t2 and t3.
C23_Witness ==
    /\ stats.tlb = [hit |-> 0, miss |-> 7]
    /\ TlbSetOf(tlb, 0)[0].tag = TagOf(t1)
    /\ TlbSetOf(tlb, 0)[1].tag = TagOf(t0)
    /\ TlbSetOf(tlb, 0)[2].tag = TagOf(t2)
    /\ TlbSetOf(tlb, 0)[3].tag = TagOf(t3)
    /\ \A j \in 0 .. 3 : TlbSetOf(tlb, 0)[j].valid
    /\ LastVictims(TlbSetOf(tlb, 0)) = {0}

----------------------------------------------------------------------------
(* The order in which L1 ways are filled *)

C24_Step ==
    \A i \in 0 .. 63 :
       LET was == CacheSetOf(cache, i)
           is == CacheSetOf(cache', i)
       IN  /\ \A j \in 0 .. 7 : was[j].valid => is[j].valid
           /\ \E n \in 0 .. 8 : ValidL1Ways(is) = (8 - n) .. 7
           /\ ValidL1Ways(was) = 0 .. 7 =>
                /\ \A j \in 1 .. 7 : is[j] = was[j]
                /\ (/\ Called("read") /\ ret'.l1ev = "miss"
                    /\ L1IndexOf(ret'.addr) = i) =>
                     is[0].tag = L1TagOf(ret'.addr) /\ is[0].tag # was[0].tag

\* C24: within any L1 set the ways become valid in the order 7, 6, ..., 0;
\* once all 8 ways are valid every further miss in the set overwrites way
\* 0; a way that is valid stays valid, and tag and line of ways 1 to 7 of a
\* full set never change again.
C24_FillOrder == [][C24_Step]_vars

\* Two misses in the full set 0: the ninth line went to way 0, the line it
\* evicted was read again and went to way 0 too; way 7 still holds the
\* first line loaded.
C24_Witness ==
    /\ call.op = "read" /\ ret.l1ev = "miss" /\ ret.kind = "ok"
    /\ stats.l1.miss = 10
    /\ ValidL1Ways(CacheSetOf(cache, 0)) = 0 .. 7
    /\ CacheSetOf(cache, 0)[0].tag = L1TagOf(ret.addr)
    /\ CacheSetOf(cache, 0)[7].tag = L1TagOf(p4)

----------------------------------------------------------------------------
(* The statistics against the calls *)

\* What one call adds to the counts: a translate, alone or inside a read,
\* adds 1 to tlb.hit or to tlb.miss, and 1 to page_faults when it returns
\* PageFault; a read whose translation succeeded, and a read_phys called on
\* its own, adds 1 to l1.hit or to l1.miss; dump_stats resets the counts;
\* no other call changes them.
C25_Step ==
    /\ (Called("translate") \/ Called("read")) /\ ret'.kind # "panic" =>
         /\ stats'.tlb.hit + stats'.tlb.miss = stats.tlb.hit + stats.tlb.miss + 1
         /\ stats'.tlb.hit = stats.tlb.hit + (IF ret'.tlbev = "hit" THEN 1 ELSE 0)
         /\ stats'.page_faults
              = stats.page_faults + (IF ret'.kind = "fault" THEN 1 ELSE 0)
         /\ stats'.l1.hit + stats'.l1.miss
              = stats.l1.hit + stats.l1.miss
                + (IF call'.op = "read" /\ ret'.kind = "ok" THEN 1 ELSE 0)
         /\ stats'.l1.hit = stats.l1.hit + (IF ret'.l1ev = "hit" THEN 1 ELSE 0)
    /\ Called("read_phys") /\ ret'.kind # "panic" =>
         /\ stats'.l1.hit + stats'.l1.miss = stats.l1.hit + stats.l1.miss + 1
         /\ stats'.tlb = stats.tlb /\ stats'.page_faults = stats.page_faults
    /\ Called("dump_stats") /\ ret'.kind # "panic" => stats' = StatsNew
    /\ (\/ Called("map_page") \/ Called("unmap_page")
        \/ Called("invalidate_tlb") \/ Called("run_many")) => stats' = stats
    /\ ~panicked' =>
         /\ stats'.page_faults >= 0
         /\ stats'.page_faults <= stats'.tlb.miss

\* C25: since the last reset of the statistics, tlb.hit + tlb.miss is the
\* number of translate calls, page_faults the number of them that returned
\* PageFault, never below 0 and never above tlb.miss, and l1.hit + l1.miss
\* the number of reads whose translation succeeded.
C25_Counts == [][C25_Step]_vars

\* After main's maps: a read that succeeds, an unmap on the walk of the
\* homonym, and a translate of the homonym that faults.
C25_Witness ==
    /\ call.op = "translate" /\ ret.kind = "fault"
    /\ stats = [page_faults |-> 1, l1 |-> [hit |-> 0, miss |-> 1],
                tlb |-> [hit |-> 0, miss |-> 2]]

----------------------------------------------------------------------------
(* The tracer's nesting depth *)

\* C26: every call of read, whether it returns a byte or PageFault, leaves
\* the tracer's nesting depth as it was before the call, so the depth is 0
\* between the calls of any sequence.
C26_DepthBalanced ==
    [][(Called("read") /\ ret'.kind # "panic")
         => (log'.depth = log.depth /\ log'.depth = 0)]_vars

====
